---- MODULE Spec2Model ----
(***************************************************************************)
(* Model of the RAG backend: the relational store (conversations and       *)
(* messages), the chat endpoint as a sequence of store operations and one  *)
(* remote query, and the conversation endpoints that run beside it.        *)
(*                                                                         *)
(* Strings are sequences of one-character strings.  Optional values are    *)
(* tuples of length 0 (None) or 1 (the value); identifiers are positive    *)
(* numbers drawn from counters (uuid4 never repeats), 0 standing for None. *)
(***************************************************************************)
EXTENDS Integers, Sequences, FiniteSets, TLC

\* ---------------------------------------------------------------- bounds
NumTurns == 2
MaxRequests == 2
MaxConvs == 2
MaxEnvOps == 1
MaxRows == 3
MaxStamp == 2
MaxProbe == 3
NumUploads == 2

\* ------------------------------------------------------ program constants
TitleChars == 50
MaxHistory == 10
MessageMinLength == 1
MessageMaxLength == 10000
ContentMinLength == 1
TitleMinLength == 1
TitleMaxLength == 255
max_file_size == 52428800

HTTP_200 == 200
HTTP_400 == 400
HTTP_404 == 404
HTTP_422 == 422
HTTP_500 == 500
HTTP_503 == 503

\* ------------------------------------------------------------- strings
Rep(ch, n) == [i \in 1..n |-> ch]

Whitespace == {" ", "\t", "\n"}

Ellipsis == <<".", ".", ".">>

NoneVal == <<>>

Some(x) == <<x>>

SetMin(S) == CHOOSE x \in S : \A y \in S : x <= y

SetMax(S) == CHOOSE x \in S : \A y \in S : x >= y

\* str.strip(): leading and trailing whitespace removed
strip(s) ==
    LET keep == {i \in 1..Len(s) : s[i] \notin Whitespace}
    IN IF keep = {} THEN <<>> ELSE SubSeq(s, SetMin(keep), SetMax(keep))

\* s[:n]
Prefix(s, n) == SubSeq(s, 1, IF Len(s) < n THEN Len(s) ELSE n)

\* s[:-1]
DropLast(s) == SubSeq(s, 1, Len(s) - 1)

\* ------------------------------------------------------------- inputs
\* 80 characters, the 50th a blank
Msg80Gap == Rep("a", 49) \o <<" ">> \o Rep("b", 30)

\* 50 characters between two blanks
Msg50Padded == <<" ">> \o Rep("d", 50) \o <<" ">>

RequestMessages == { <<>>, <<" ">>, Msg50Padded, Msg80Gap }

ResponseTexts == { <<>>, <<"r">> }

QueryFailures == {"network", "timeout", "status", "malformed"}

GivenTitles == { NoneVal, Some(<<>>), Some(<<"T">>) }

PatchTitles == { <<>>, <<"T">> }

Turns == 1..NumTurns

ConvIds == 1..MaxConvs

\* an identifier no conversation has
UnknownConv == MaxConvs + 1

\* the conversation_id values a chat request may carry: None, an identifier
\* issued before, or one that names nothing
RequestConvIds(issued) == {0, UnknownConv} \cup {c \in ConvIds : c < issued}

\* ------------------------------------------------------------- state
VARIABLES
    conversations,  \* table conversations: id -> [title]
    messages,       \* table messages: id -> [conversation_id, sender, content, sources, timestamp]
    nextConvId,     \* next fresh conversation id
    nextMsgId,      \* next fresh message id
    clock,          \* the database clock, read at transaction start
    lastBegin,      \* the session whose transaction start was the latest step, or 0
    turn,           \* the chat handler's locals and position, per request slot
    requests,       \* chat requests accepted so far
    envOps,         \* requests to the conversation endpoints so far
    deleted,        \* conversations deleted so far: [id, messages]
    probe,          \* a direct call of get_conversation_history_for_lightrag
    files,          \* names of the files in the documents directory
    nextFileId,     \* next fresh unique_id of an upload
    upload,         \* the upload handler's locals and position, per request slot
    client          \* the RAG client operations invoked by the other endpoints

docVars == <<files, nextFileId, upload, client>>

chatVars == <<conversations, messages, nextConvId, nextMsgId, clock, lastBegin,
              turn, envOps, deleted, probe>>

vars == <<conversations, messages, nextConvId, nextMsgId, clock, lastBegin,
          turn, requests, envOps, deleted, probe, docVars>>

\* ------------------------------------------------------ store: reads
ConvMsgIds(c) == {m \in DOMAIN messages : messages[m].conversation_id = c}

get_conversation(c) ==
    IF c \in DOMAIN conversations THEN Some(conversations[c]) ELSE NoneVal

get_message(m) ==
    IF m \in DOMAIN messages THEN Some(messages[m]) ELSE NoneVal

conversation_exists(c) == c \in DOMAIN conversations

get_conversation_message_count(c) == Cardinality(ConvMsgIds(c))

\* the row orders ORDER BY timestamp may return; rows of equal timestamp
\* come back in any order
RECURSIVE OrderByTimestamp(_)
OrderByTimestamp(S) ==
    IF S = {} THEN {<<>>}
    ELSE LET first == {m \in S : \A n \in S : messages[m].timestamp <= messages[n].timestamp}
         IN UNION {{<<m>> \o s : s \in OrderByTimestamp(S \ {m})} : m \in first}

Reverse(s) == [i \in 1..Len(s) |-> s[Len(s) + 1 - i]]

OrderByTimestampDesc(S) == {Reverse(s) : s \in OrderByTimestamp(S)}

get_messages_by_conversation(c) == OrderByTimestamp(ConvMsgIds(c))

RoleOf(sender) == IF sender = "user" THEN "user" ELSE "assistant"

\* variant: the newest rows are not put back in chronological order
HistoryRowsNewestFirst(c, max_messages) ==
    {Prefix(s, max_messages) : s \in OrderByTimestampDesc(ConvMsgIds(c))}

\* variant: the rows are not filtered by conversation
HistoryRowsAnyConversation(c, max_messages) ==
    {Reverse(Prefix(s, max_messages)) : s \in OrderByTimestampDesc(DOMAIN messages)}

\* the local list `messages` of get_conversation_history_for_lightrag:
\* newest max_messages rows, reversed to chronological order
HistoryRows(c, max_messages) ==
    {Reverse(Prefix(s, max_messages)) : s \in OrderByTimestampDesc(ConvMsgIds(c))}

HistoryOf(rows) ==
    [i \in 1..Len(rows) |->
        [role |-> RoleOf(messages[rows[i]].sender), content |-> messages[rows[i]].content]]

\* variant: the first characters are not trimmed
TitleTextUntrimmed(content) ==
    LET title == Prefix(content, TitleChars)
    IN IF Len(content) > TitleChars THEN title \o Ellipsis ELSE title

TitleText(content) ==
    LET title == strip(Prefix(content, TitleChars))
    IN IF Len(content) > TitleChars THEN title \o Ellipsis ELSE title

\* the rows `.order_by(timestamp).first()` may return for the user
\* messages of c
FirstUserMessages(c) ==
    LET users == {m \in ConvMsgIds(c) : messages[m].sender = "user"}
    IN {m \in users : \A n \in users : messages[m].timestamp <= messages[n].timestamp}

\* the results generate_conversation_title may give: the row it loaded
\* (0 for none) and the title it returns
generate_conversation_title(c) ==
    IF FirstUserMessages(c) = {} THEN {[row |-> 0, title |-> NoneVal]}
    ELSE {[row |-> m, title |-> Some(TitleText(messages[m].content))] : m \in FirstUserMessages(c)}

\* ------------------------------------------------------ store: writes
Message(c, sender, content, sources, ts) ==
    [conversation_id |-> c, sender |-> sender, content |-> content,
     sources |-> sources, timestamp |-> ts]

\* MessageCreate: content has min_length 1
MessageCreateValid(content) == Len(content) >= ContentMinLength

\* variant: the store does not enforce the foreign key
ForeignKeyUnenforced(c) == TRUE

\* the foreign key messages.conversation_id -> conversations.id
ForeignKeyHolds(c) == c \in DOMAIN conversations

InsertMessage(c, sender, content, sources, ts) ==
    messages @@ (nextMsgId :> Message(c, sender, content, sources, ts))

InsertConversation(title) == conversations @@ (nextConvId :> [title |-> title])

SetTitle(c, title) == [conversations EXCEPT ![c] = [title |-> Some(title)]]

\* variant: the delete does not cascade
MessagesAfterDeleteNoCascade(c) == messages

\* rows left in messages once conversation c is deleted (cascade)
MessagesAfterDelete(c) ==
    [m \in DOMAIN messages \ ConvMsgIds(c) |-> messages[m]]

ConversationsAfterDelete(c) ==
    [d \in DOMAIN conversations \ {c} |-> conversations[d]]

\* ------------------------------------------------------ transactions
\* now() is the start time of the session's open transaction.  A
\* transaction started by session t is stamped later than every earlier
\* start, except that it may share the stamp of a start by another
\* session that happened in the step just before (concurrent starts).
\* Only the transactions that go on to insert a message are stamped: the
\* start time of any other transaction is read by nothing.
BeginTimes(t) ==
    {ts \in {clock, clock + 1} :
        ts = clock => (lastBegin \notin {0, t} /\ ts > turn[t].txStart)}

NoBegin == clock' = clock /\ lastBegin' = 0

\* ------------------------------------------------------ chat endpoint
IdleTurn ==
    [pc |-> "idle",
     body |-> <<>>,
     request |-> [conversation_id |-> 0, message |-> <<>>],
     conversation_id |-> 0,
     user_message |-> 0,
     ai_message |-> 0,
     rows |-> <<>>,
     conversation_history |-> <<>>,
     ai_response_text |-> <<>>,
     seen_title |-> NoneVal,
     generated_title |-> NoneVal,
     txStart |-> 0,
     status |-> 0,
     error |-> "",
     response |-> NoneVal,
     sent |-> <<>>,
     fresh |-> {},
     pre |-> {},
     overlap |-> FALSE]

InFlight(u) == turn[u].pc \notin {"idle", "done"}

\* the conversation turn u works on, 0 while it has none
Target(u) ==
    IF turn[u].conversation_id # 0 THEN turn[u].conversation_id
    ELSE turn[u].request.conversation_id

\* variant: the validator does not strip before it tests for emptiness
ChatRequestValidUnstripped(message) ==
    /\ Len(message) >= MessageMinLength
    /\ Len(message) <= MessageMaxLength

\* ChatRequest: message has min_length 1, max_length 10000, and the
\* validator refuses a message that is empty once stripped
ChatRequestValid(message) ==
    /\ Len(message) >= MessageMinLength
    /\ Len(message) <= MessageMaxLength
    /\ strip(message) # <<>>

\* variant: the failure is noted and the handler goes on
RaiseAndGoOn(t, code, error) ==
    [turn EXCEPT ![t].status = code, ![t].error = error]

\* the handler ends with an HTTPException of the given status; error names
\* the exception that was caught
Raise(t, code, error) ==
    [turn EXCEPT ![t].pc = "done", ![t].status = code, ![t].error = error, ![t].fresh = {}]

\* variant: the response text is reported as its own source
ExtractSourcesFromText(text) == Some(<<text>>)

\* step 5: the sources taken from the response, a placeholder that takes none
ExtractSources(text) == NoneVal

\* step 8: the handler returns ChatResponse
Return(t) ==
    [turn EXCEPT ![t].pc = "done", ![t].status = HTTP_200, ![t].fresh = {},
                 ![t].response = Some([conversation_id |-> turn[t].conversation_id,
                                       ai_message |-> turn[t].ai_response_text,
                                       sources |-> ExtractSources(turn[t].ai_response_text),
                                       user_message_id |-> turn[t].user_message,
                                       ai_message_id |-> turn[t].ai_message])]

\* turns that work on conversation c beside turn t are marked as overlapping
MarkOverlap(tn, t, c) ==
    LET others == {u \in Turns \ {t} : InFlight(u) /\ Target(u) = c /\ c # 0}
    IN [u \in Turns |->
          IF u = t THEN [tn[u] EXCEPT !.overlap = @ \/ others # {}]
          ELSE IF u \in others THEN [tn[u] EXCEPT !.overlap = TRUE]
          ELSE tn[u]]

\* a request arrives; FastAPI validates the body before the handler runs
ChatReceive(t, cid, message) ==
    /\ turn[t].pc \in {"idle", "done"}
    /\ \A u \in Turns : u < t => InFlight(u)
    /\ requests < MaxRequests
    /\ cid = 0 =>
         nextConvId + Cardinality({u \in Turns : turn[u].pc = "resolve"
                                      /\ turn[u].request.conversation_id = 0}) <= MaxConvs
    /\ requests' = requests + 1
    /\ IF ChatRequestValid(message)
       THEN turn' = MarkOverlap(
                [turn EXCEPT ![t] = [IdleTurn EXCEPT
                    !.pc = "resolve",
                    !.body = message,
                    !.request = [conversation_id |-> cid, message |-> strip(message)]]],
                t, cid)
       ELSE turn' = [turn EXCEPT ![t] = [IdleTurn EXCEPT
                    !.pc = "done", !.status = HTTP_422, !.body = message,
                    !.error = "RequestValidationError"]]
    /\ NoBegin
    /\ UNCHANGED <<conversations, messages, nextConvId, nextMsgId, envOps, deleted, probe>>
    /\ UNCHANGED docVars

\* step 1, no conversation_id: create_conversation(title=None)
ChatCreateConversation(t) ==
    /\ turn[t].pc = "resolve"
    /\ turn[t].request.conversation_id = 0
    /\ \E ts \in BeginTimes(t) :
         /\ conversations' = InsertConversation(NoneVal)
         /\ nextConvId' = nextConvId + 1
         /\ turn' = MarkOverlap(
                [turn EXCEPT ![t].pc = "save_user",
                             ![t].conversation_id = nextConvId,
                             ![t].pre = {},
                             ![t].txStart = ts],
                t, nextConvId)
         /\ clock' = ts
         /\ lastBegin' = t
    /\ UNCHANGED <<messages, nextMsgId, requests, envOps, deleted>>
    /\ UNCHANGED <<probe, docVars>>

\* variant: the identifier is used without the lookup
ChatGetConversationUnchecked(t) ==
    /\ turn[t].pc = "resolve"
    /\ turn[t].request.conversation_id # 0
    /\ \E ts \in BeginTimes(t) :
         /\ turn' = [turn EXCEPT ![t].pc = "save_user",
                          ![t].conversation_id = turn[t].request.conversation_id,
                          ![t].pre = ConvMsgIds(turn[t].request.conversation_id),
                          ![t].txStart = ts]
         /\ clock' = ts
         /\ lastBegin' = t
    /\ UNCHANGED <<conversations, messages, nextConvId, nextMsgId, requests, envOps, deleted>>
    /\ UNCHANGED <<probe, docVars>>

\* step 1, conversation_id given: get_conversation, 404 when absent
ChatGetConversation(t) ==
    /\ turn[t].pc = "resolve"
    /\ turn[t].request.conversation_id # 0
    /\ IF get_conversation(turn[t].request.conversation_id) = NoneVal
       THEN /\ turn' = Raise(t, HTTP_404, "HTTPException")
            /\ NoBegin
       ELSE \E ts \in BeginTimes(t) :
            /\ turn' = [turn EXCEPT ![t].pc = "save_user",
                             ![t].conversation_id = turn[t].request.conversation_id,
                             ![t].pre = ConvMsgIds(turn[t].request.conversation_id),
                             ![t].txStart = ts]
            /\ clock' = ts
            /\ lastBegin' = t
    /\ UNCHANGED <<conversations, messages, nextConvId, nextMsgId, requests, envOps, deleted>>
    /\ UNCHANGED <<probe, docVars>>

\* step 2: create_user_message (INSERT, COMMIT, refresh)
ChatSaveUser(t) ==
    /\ turn[t].pc = "save_user"
    /\ IF ~MessageCreateValid(turn[t].request.message)
       THEN /\ turn' = Raise(t, HTTP_500, "ValidationError")
            /\ NoBegin
            /\ UNCHANGED <<messages, nextMsgId>>
       ELSE IF ForeignKeyHolds(turn[t].conversation_id)
       THEN \E ts \in BeginTimes(t) :
              /\ messages' = InsertMessage(turn[t].conversation_id, "user",
                                           turn[t].request.message, NoneVal, turn[t].txStart)
              /\ nextMsgId' = nextMsgId + 1
              /\ turn' = [turn EXCEPT ![t].pc = "history",
                                      ![t].user_message = nextMsgId,
                                      ![t].fresh = {nextMsgId},
                                      ![t].txStart = ts]
              /\ clock' = ts
              /\ lastBegin' = t
       ELSE /\ turn' = Raise(t, HTTP_500, "IntegrityError")
            /\ NoBegin
            /\ UNCHANGED <<messages, nextMsgId>>
    /\ UNCHANGED <<conversations, nextConvId, requests, envOps, deleted>>
    /\ UNCHANGED <<probe, docVars>>

\* step 3: get_conversation_history_for_lightrag(max_messages=10)
ChatHistory(t) ==
    /\ turn[t].pc = "history"
    /\ \E rows \in HistoryRows(turn[t].conversation_id, MaxHistory) :
         turn' = [turn EXCEPT ![t].pc = "query",
                              ![t].rows = rows,
                              ![t].conversation_history = HistoryOf(rows)]
    /\ NoBegin
    /\ UNCHANGED <<conversations, messages, nextConvId, nextMsgId, requests, envOps, deleted>>
    /\ UNCHANGED <<probe, docVars>>

\* ------------------------------------------------------ RAG client
\* variant: a failed request is sent a second time
ClientOperationRetrying(op, outcome) ==
    [op |-> op, requests |-> IF outcome = "ok" THEN 1 ELSE 2, raised |-> outcome # "ok"]

\* one operation of LightRAGService (query, upload_document, scan_documents,
\* get_pipeline_status, health_check): the outbound requests it makes and
\* whether it raises, for the outcome of its request
ClientOperation(op, outcome) ==
    [op |-> op, requests |-> 1, raised |-> outcome # "ok"]

\* variant: the fetched window is forwarded whole
ForwardedWhole(h) == h

\* the argument conversation_history of the query: the fetched window
\* without its last entry, None for an empty window
ForwardedHistory(h) == IF h # <<>> THEN DropLast(h) ELSE <<>>

\* the request body of LightRAGService.query; conversation_history is
\* left out when it is empty.  rows names the store rows behind the
\* entries of conversation_history.
QueryPayload(t) ==
    LET h == ForwardedHistory(turn[t].conversation_history)
    IN [query |-> turn[t].request.message,
        conversation_history |-> IF h # <<>> THEN Some(h) ELSE NoneVal,
        rows |-> ForwardedHistory(turn[t].rows)]

\* variant: the failure handler takes the user message back
ChatQueryFailsUndoingUser(t, failure) ==
    /\ turn[t].pc = "query"
    /\ ClientOperation("query", failure).raised
    /\ turn' = [Raise(t, HTTP_503, "QueryError") EXCEPT
                  ![t].sent = @ \o [i \in 1..ClientOperation("query", failure).requests |->
                                      QueryPayload(t)]]
    /\ messages' = [m \in DOMAIN messages \ {turn[t].user_message} |-> messages[m]]
    /\ NoBegin
    /\ UNCHANGED <<conversations, nextConvId, nextMsgId, requests, envOps, deleted>>
    /\ UNCHANGED <<probe, docVars>>

\* variant: the failure of the query is noted and the turn goes on
ChatQueryFailsGoingOn(t, failure) ==
    /\ turn[t].pc = "query"
    /\ ClientOperation("query", failure).raised
    /\ turn' = [turn EXCEPT ![t].pc = "save_ai",
                            ![t].error = "QueryError",
                            ![t].ai_response_text = <<"r">>,
                            ![t].sent = @ \o [i \in 1..ClientOperation("query", failure).requests |->
                                                QueryPayload(t)]]
    /\ NoBegin
    /\ UNCHANGED <<conversations, messages, nextConvId, nextMsgId, requests, envOps, deleted>>
    /\ UNCHANGED <<probe, docVars>>

\* step 4, the query raises: 503
ChatQueryFails(t, failure) ==
    /\ turn[t].pc = "query"
    /\ ClientOperation("query", failure).raised
    /\ turn' = [Raise(t, HTTP_503, "QueryError") EXCEPT
                  ![t].sent = @ \o [i \in 1..ClientOperation("query", failure).requests |->
                                      QueryPayload(t)]]
    /\ NoBegin
    /\ UNCHANGED <<conversations, messages, nextConvId, nextMsgId, requests, envOps, deleted>>
    /\ UNCHANGED <<probe, docVars>>

\* step 4, the query returns the response text (empty when the body has none)
ChatQueryReturns(t, text) ==
    /\ turn[t].pc = "query"
    /\ ~ClientOperation("query", "ok").raised
    /\ turn' = [turn EXCEPT ![t].pc = "save_ai",
                            ![t].ai_response_text = text,
                            ![t].sent = @ \o [i \in 1..ClientOperation("query", "ok").requests |->
                                                QueryPayload(t)]]
    /\ NoBegin
    /\ UNCHANGED <<conversations, messages, nextConvId, nextMsgId, requests, envOps, deleted>>
    /\ UNCHANGED <<probe, docVars>>

\* variant: the response is stored with the sender of the request
ChatSaveAIAsUser(t) ==
    /\ turn[t].pc = "save_ai"
    /\ IF ~MessageCreateValid(turn[t].ai_response_text)
       THEN /\ turn' = Raise(t, HTTP_500, "ValidationError")
            /\ UNCHANGED <<messages, nextMsgId>>
       ELSE IF ForeignKeyHolds(turn[t].conversation_id)
       THEN /\ messages' = InsertMessage(turn[t].conversation_id, "user",
                                         turn[t].ai_response_text, NoneVal, turn[t].txStart)
            /\ nextMsgId' = nextMsgId + 1
            /\ turn' = [turn EXCEPT ![t].pc = "title_check", ![t].ai_message = nextMsgId,
                                    ![t].fresh = {nextMsgId}]
       ELSE /\ turn' = Raise(t, HTTP_500, "IntegrityError")
            /\ UNCHANGED <<messages, nextMsgId>>
    /\ NoBegin
    /\ UNCHANGED <<conversations, nextConvId, requests, envOps, deleted>>
    /\ UNCHANGED <<probe, docVars>>

\* variant: steps 2 and 6 are one transaction, a failure of step 6 takes
\* the user message back
ChatSaveAIRollingBack(t) ==
    /\ turn[t].pc = "save_ai"
    /\ IF ~MessageCreateValid(turn[t].ai_response_text)
             \/ ~ForeignKeyHolds(turn[t].conversation_id)
       THEN /\ turn' = Raise(t, HTTP_500, "ValidationError")
            /\ messages' = [m \in DOMAIN messages \ {turn[t].user_message} |-> messages[m]]
            /\ UNCHANGED nextMsgId
       ELSE /\ messages' = InsertMessage(turn[t].conversation_id, "ai",
                                         turn[t].ai_response_text,
                                         ExtractSources(turn[t].ai_response_text),
                                         turn[t].txStart)
            /\ nextMsgId' = nextMsgId + 1
            /\ turn' = [turn EXCEPT ![t].pc = "title_check", ![t].ai_message = nextMsgId,
                                    ![t].fresh = {nextMsgId}]
    /\ NoBegin
    /\ UNCHANGED <<conversations, nextConvId, requests, envOps, deleted>>
    /\ UNCHANGED <<probe, docVars>>

\* step 6: create_ai_message (validation, INSERT, COMMIT, refresh)
ChatSaveAI(t) ==
    /\ turn[t].pc = "save_ai"
    /\ IF ~MessageCreateValid(turn[t].ai_response_text)
       THEN /\ turn' = Raise(t, HTTP_500, "ValidationError")
            /\ UNCHANGED <<messages, nextMsgId>>
       ELSE IF ForeignKeyHolds(turn[t].conversation_id)
       THEN /\ messages' = InsertMessage(turn[t].conversation_id, "ai",
                                         turn[t].ai_response_text,
                                         ExtractSources(turn[t].ai_response_text),
                                         turn[t].txStart)
            /\ nextMsgId' = nextMsgId + 1
            /\ turn' = [turn EXCEPT ![t].pc = "title_check", ![t].ai_message = nextMsgId,
                                    ![t].fresh = {nextMsgId}]
       ELSE /\ turn' = Raise(t, HTTP_500, "IntegrityError")
            /\ UNCHANGED <<messages, nextMsgId>>
    /\ NoBegin
    /\ UNCHANGED <<conversations, nextConvId, requests, envOps, deleted>>
    /\ UNCHANGED <<probe, docVars>>

\* `not conversation.title`
TitleMissing(title) == title = NoneVal \/ title = Some(<<>>)

\* variant: the title is generated whatever the conversation's title is
ChatTitleCheckAlways(t) ==
    /\ turn[t].pc = "title_check"
    /\ IF ~conversation_exists(turn[t].conversation_id)
       THEN turn' = Raise(t, HTTP_500, "ObjectDeletedError")
       ELSE turn' = [turn EXCEPT ![t].pc = "title_generate",
                                 ![t].seen_title = conversations[turn[t].conversation_id].title]
    /\ NoBegin
    /\ UNCHANGED <<conversations, messages, nextConvId, nextMsgId, requests, envOps, deleted>>
    /\ UNCHANGED <<probe, docVars>>

\* step 7, the test: conversation was expired by the commit and is
\* loaded again; ObjectDeletedError (500) when its row is gone
ChatTitleCheck(t) ==
    /\ turn[t].pc = "title_check"
    /\ IF ~conversation_exists(turn[t].conversation_id)
       THEN turn' = Raise(t, HTTP_500, "ObjectDeletedError")
       ELSE IF TitleMissing(conversations[turn[t].conversation_id].title)
       THEN turn' = [turn EXCEPT ![t].pc = "title_generate",
                                 ![t].seen_title = conversations[turn[t].conversation_id].title]
       ELSE turn' = [turn EXCEPT ![t].pc = "respond",
                                 ![t].seen_title = conversations[turn[t].conversation_id].title]
    /\ NoBegin
    /\ UNCHANGED <<conversations, messages, nextConvId, nextMsgId, requests, envOps, deleted>>
    /\ UNCHANGED <<probe, docVars>>

\* step 7: generate_conversation_title
ChatTitleGenerate(t) ==
    /\ turn[t].pc = "title_generate"
    /\ \E g \in generate_conversation_title(turn[t].conversation_id) :
         turn' = [turn EXCEPT
                    ![t].pc = IF g.title # NoneVal /\ g.title[1] # <<>>
                              THEN "title_update" ELSE "respond",
                    ![t].generated_title = g.title,
                    ![t].fresh = @ \cup ({g.row} \cap {turn[t].user_message})]
    /\ NoBegin
    /\ UNCHANGED <<conversations, messages, nextConvId, nextMsgId, requests, envOps, deleted>>
    /\ UNCHANGED <<probe, docVars>>

\* variant: the title is written to every conversation that has none
ChatTitleUpdateEverywhere(t) ==
    /\ turn[t].pc = "title_update"
    /\ conversations' = [c \in DOMAIN conversations |->
                           IF c = turn[t].conversation_id \/ TitleMissing(conversations[c].title)
                           THEN [title |-> Some(turn[t].generated_title[1])]
                           ELSE conversations[c]]
    /\ turn' = [turn EXCEPT ![t].pc = "respond", ![t].fresh = {}]
    /\ NoBegin
    /\ UNCHANGED <<messages, nextConvId, nextMsgId, requests, envOps, deleted>>
    /\ UNCHANGED <<probe, docVars>>

\* step 7: update_conversation_title; its commit expires what the session
\* has loaded, and it does nothing when the conversation is gone
ChatTitleUpdate(t) ==
    /\ turn[t].pc = "title_update"
    /\ IF conversation_exists(turn[t].conversation_id)
       THEN /\ conversations' = SetTitle(turn[t].conversation_id, turn[t].generated_title[1])
            /\ turn' = [turn EXCEPT ![t].pc = "respond", ![t].fresh = {}]
       ELSE /\ UNCHANGED conversations
            /\ turn' = [turn EXCEPT ![t].pc = "respond"]
    /\ NoBegin
    /\ UNCHANGED <<messages, nextConvId, nextMsgId, requests, envOps, deleted>>
    /\ UNCHANGED <<probe, docVars>>

\* step 8: ChatResponse reads user_message.id and ai_message.id; a message
\* the session holds expired is loaded again, ObjectDeletedError (500) when
\* its row is gone
ChatRespond(t) ==
    /\ turn[t].pc = "respond"
    /\ IF ({turn[t].user_message, turn[t].ai_message} \ turn[t].fresh) \subseteq DOMAIN messages
       THEN turn' = Return(t)
       ELSE turn' = Raise(t, HTTP_500, "ObjectDeletedError")
    /\ NoBegin
    /\ UNCHANGED <<conversations, messages, nextConvId, nextMsgId, requests, envOps, deleted>>
    /\ UNCHANGED <<probe, docVars>>

\* ------------------------------------------------ conversation endpoints
PendingCreates ==
    Cardinality({u \in Turns : turn[u].pc = "resolve" /\ turn[u].request.conversation_id = 0})

\* POST /api/conversations/new
CreateNewConversation(title) ==
    /\ nextConvId + PendingCreates <= MaxConvs
    /\ title # NoneVal => Len(title[1]) <= TitleMaxLength
    /\ conversations' = InsertConversation(title)
    /\ nextConvId' = nextConvId + 1
    /\ NoBegin
    /\ UNCHANGED <<messages, nextMsgId, turn, requests, deleted>>
    /\ envOps < MaxEnvOps /\ envOps' = envOps + 1
    /\ UNCHANGED <<probe, docVars>>

\* PATCH /api/conversations/{id}/title: title has min_length 1, max_length 255
PatchTitleValid(title) == Len(title) >= TitleMinLength /\ Len(title) <= TitleMaxLength

UpdateConversationTitle(c, title) ==
    /\ PatchTitleValid(title)
    /\ conversation_exists(c)
    /\ conversations' = SetTitle(c, title)
    /\ NoBegin
    /\ UNCHANGED <<messages, nextConvId, nextMsgId, turn, requests, deleted>>
    /\ envOps < MaxEnvOps /\ envOps' = envOps + 1
    /\ UNCHANGED <<probe, docVars>>

\* DELETE /api/conversations/{id}: delete_conversation returns True
DeleteConversation(c) ==
    /\ conversation_exists(c)
    /\ conversations' = ConversationsAfterDelete(c)
    /\ messages' = MessagesAfterDelete(c)
    /\ deleted' = deleted \cup {[id |-> c, messages |-> ConvMsgIds(c)]}
    /\ NoBegin
    /\ UNCHANGED <<nextConvId, nextMsgId, turn, requests>>
    /\ envOps < MaxEnvOps /\ envOps' = envOps + 1
    /\ UNCHANGED <<probe, docVars>>

\* ------------------------------------------------------ documents: files
\* ALLOWED_EXTENSIONS
ALLOWED_EXTENSIONS ==
    { <<".", "p", "d", "f">>, <<".", "t", "x", "t">>, <<".", "d", "o", "c">>,
      <<".", "d", "o", "c", "x">>, <<".", "m", "d">>, <<".", "r", "t", "f">>,
      <<".", "c", "s", "v">>, <<".", "x", "l", "s", "x">>, <<".", "x", "l", "s">>,
      <<".", "p", "p", "t">>, <<".", "p", "p", "t", "x">> }

\* ALLOWED_MIME_TYPES
ALLOWED_MIME_TYPES ==
    { "application/pdf", "text/plain", "text/markdown", "text/csv",
      "application/msword",
      "application/vnd.openxmlformats-officedocument.wordprocessingml.document",
      "application/vnd.ms-excel",
      "application/vnd.openxmlformats-officedocument.spreadsheetml.sheet",
      "application/vnd.ms-powerpoint",
      "application/vnd.openxmlformats-officedocument.presentationml.presentation" }

\* str.lower() on the letters the file names here are written with
LowerOf ==
    [ch \in {"A", "B", "C", "D", "E", "F", "P", "T", "X"} |->
        CASE ch = "A" -> "a" [] ch = "B" -> "b" [] ch = "C" -> "c" [] ch = "D" -> "d"
          [] ch = "E" -> "e" [] ch = "F" -> "f" [] ch = "P" -> "p" [] ch = "T" -> "t"
          [] ch = "X" -> "x"]

lower(s) == [i \in 1..Len(s) |-> IF s[i] \in DOMAIN LowerOf THEN LowerOf[s[i]] ELSE s[i]]

\* Path(name).suffix: from the last dot on, when that dot is neither the
\* first nor the last character of the name
suffix(name) ==
    LET dots == {i \in 1..Len(name) : name[i] = "."}
    IN IF dots # {} /\ SetMax(dots) > 1 /\ SetMax(dots) < Len(name)
       THEN SubSeq(name, SetMax(dots), Len(name))
       ELSE <<>>

\* Path(name).stem
stem(name) == SubSeq(name, 1, Len(name) - Len(suffix(name)))

\* file.filename or "unknown_file"
UnknownFile == <<"u", "n", "k", "n", "o", "w", "n", "_", "f", "i", "l", "e">>

OriginalFilename(file) ==
    IF file.filename # NoneVal /\ file.filename[1] # <<>> THEN file.filename[1]
    ELSE UnknownFile

\* f"{stem}_{unique_id}{ext}", unique_id the first characters of a uuid4
UniqueFilename(file, unique_id) ==
    [stem |-> stem(OriginalFilename(file)), unique_id |-> unique_id,
     ext |-> suffix(OriginalFilename(file))]

\* validate_file: the status it raises, 0 when it returns
validate_file(file) ==
    IF file.size # 0 /\ file.size > max_file_size THEN HTTP_400
    ELSE IF /\ file.filename # NoneVal /\ file.filename[1] # <<>>
            /\ lower(suffix(file.filename[1])) \notin ALLOWED_EXTENSIONS THEN HTTP_400
    ELSE IF file.content_type # NoneVal /\ file.content_type[1] \notin ALLOWED_MIME_TYPES
         THEN HTTP_400
    ELSE 0

\* ------------------------------------------------------ documents: inputs
UploadFilenames ==
    { NoneVal, Some(<<"a", ".", "P", "D", "F">>), Some(<<"a", ".", "e", "x", "e">>),
      Some(<<"a">>) }

UploadContentTypes == { NoneVal, Some("application/pdf"), Some("application/x-msdownload") }

UploadSizes == { 0, 1, max_file_size + 1 }

UploadFiles ==
    [filename : UploadFilenames, content_type : UploadContentTypes, size : UploadSizes]

Uploads == 1..NumUploads

SaveOutcomes == {"ok", "fails", "partial"}

CallOutcomes == {"ok", "fails"}

\* ------------------------------------------------------ upload endpoint
IdleUpload ==
    [pc |-> "idle",
     file |-> [filename |-> NoneVal, content_type |-> NoneVal, size |-> 0],
     unique_filename |-> NoneVal,
     status |-> 0,
     response |-> NoneVal,
     calls |-> <<>>]

UploadInFlight(u) == upload[u].pc \notin {"idle", "done"}

UploadRaise(u, code) == [upload EXCEPT ![u].pc = "done", ![u].status = code]

\* a multipart request arrives at POST /api/documents/upload
UploadReceive(u, file) ==
    /\ upload[u].pc \in {"idle", "done"}
    /\ \A v \in Uploads : v < u => UploadInFlight(v)
    /\ requests < MaxRequests
    /\ requests' = requests + 1
    /\ upload' = [upload EXCEPT ![u] = [IdleUpload EXCEPT !.pc = "validate", !.file = file]]
    /\ UNCHANGED <<files, nextFileId, client>>
    /\ UNCHANGED chatVars

\* validate_file, then the unique file name is derived
UploadValidate(u) ==
    /\ upload[u].pc = "validate"
    /\ IF validate_file(upload[u].file) # 0
       THEN /\ upload' = UploadRaise(u, validate_file(upload[u].file))
            /\ UNCHANGED nextFileId
       ELSE /\ upload' = [upload EXCEPT
                            ![u].pc = "save",
                            ![u].unique_filename =
                                Some(UniqueFilename(upload[u].file, nextFileId))]
            /\ nextFileId' = nextFileId + 1
    /\ UNCHANGED <<files, requests, client>>
    /\ UNCHANGED chatVars

\* variant: a failed save is not noticed
UploadSaveUnnoticed(u, outcome) ==
    /\ upload[u].pc = "save"
    /\ files' = IF outcome = "fails" THEN files
                ELSE files \cup {upload[u].unique_filename[1]}
    /\ upload' = [upload EXCEPT ![u].pc = "forward"]
    /\ UNCHANGED <<nextFileId, requests, client>>
    /\ UNCHANGED chatVars

\* save_uploaded_file: it returns, or raises before the file is created,
\* or raises with the file created and partly written
UploadSave(u, outcome) ==
    /\ upload[u].pc = "save"
    /\ files' = IF outcome = "fails" THEN files
                ELSE files \cup {upload[u].unique_filename[1]}
    /\ upload' = IF outcome = "ok" THEN [upload EXCEPT ![u].pc = "forward"]
                 ELSE UploadRaise(u, HTTP_500)
    /\ UNCHANGED <<nextFileId, requests, client>>
    /\ UNCHANGED chatVars

\* variant: the saved file is left in place when the forward fails
UploadForwardKeepingFile(u, outcome) ==
    /\ upload[u].pc = "forward"
    /\ LET name == upload[u].unique_filename[1]
           op == ClientOperation("upload_document", outcome)
           sent == [i \in 1..op.requests |-> [filename |-> name, saved |-> name \in files]]
       IN IF op.raised
          THEN /\ UNCHANGED files
               /\ upload' = [UploadRaise(u, HTTP_503) EXCEPT ![u].calls = @ \o sent]
          ELSE /\ UNCHANGED files
               /\ upload' = [upload EXCEPT
                               ![u].pc = "done",
                               ![u].status = HTTP_200,
                               ![u].calls = @ \o sent,
                               ![u].response = Some([status |-> "success",
                                                     filename |-> name,
                                                     file_size |-> upload[u].file.size])]
    /\ UNCHANGED <<nextFileId, requests, client>>
    /\ UNCHANGED chatVars

\* lightrag_service.upload_document, the compensating unlink when it raises
UploadForward(u, outcome) ==
    /\ upload[u].pc = "forward"
    /\ LET name == upload[u].unique_filename[1]
           op == ClientOperation("upload_document", outcome)
           sent == [i \in 1..op.requests |-> [filename |-> name, saved |-> name \in files]]
       IN IF op.raised
          THEN /\ files' = files \ {name}
               /\ upload' = [UploadRaise(u, HTTP_503) EXCEPT ![u].calls = @ \o sent]
          ELSE /\ UNCHANGED files
               /\ upload' = [upload EXCEPT
                               ![u].pc = "done",
                               ![u].status = HTTP_200,
                               ![u].calls = @ \o sent,
                               ![u].response = Some([status |-> "success",
                                                     filename |-> name,
                                                     file_size |-> upload[u].file.size])]
    /\ UNCHANGED <<nextFileId, requests, client>>
    /\ UNCHANGED chatVars

\* ------------------------------------------------ endpoints of the client
\* an endpoint that invokes one client operation and answers 503, or for
\* the health check "unhealthy" in a 200, when the operation raises
Invoke(op, outcome, failed) ==
    /\ requests < MaxRequests
    /\ requests' = requests + 1
    /\ client' = Append(client,
                        [call |-> ClientOperation(op, outcome),
                         status |-> IF ClientOperation(op, outcome).raised
                                    THEN failed ELSE HTTP_200])
    /\ UNCHANGED <<files, nextFileId, upload>>
    /\ UNCHANGED chatVars

\* POST /api/documents/scan
trigger_document_scan(outcome) == Invoke("scan_documents", outcome, HTTP_503)

\* GET /api/documents/pipeline/status
get_pipeline_status(outcome) == Invoke("get_pipeline_status", outcome, HTTP_503)

\* GET /health
health_check(outcome) == Invoke("health_check", outcome, HTTP_200)

InitDocs ==
    /\ files = {}
    /\ nextFileId = 1
    /\ upload = [u \in Uploads |-> IdleUpload]
    /\ client = <<>>

NextDocs ==
    \/ \E u \in Uploads, file \in UploadFiles : UploadReceive(u, file)
    \/ \E u \in Uploads : UploadValidate(u)
    \/ \E u \in Uploads, outcome \in SaveOutcomes : UploadSave(u, outcome)
    \/ \E u \in Uploads, outcome \in CallOutcomes : UploadForward(u, outcome)
    \/ \E outcome \in CallOutcomes : trigger_document_scan(outcome)
    \/ \E outcome \in CallOutcomes : get_pipeline_status(outcome)
    \/ \E outcome \in CallOutcomes : health_check(outcome)

\* ------------------------------------------- history assembly, called directly
NoProbe == [called |-> FALSE, conversation_id |-> 0, max_messages |-> 0,
            rows |-> <<>>, history |-> <<>>]

\* get_conversation_history_for_lightrag(db, c, max_messages): rows is its
\* local list `messages`, history the list it returns
CallHistory(c, max_messages) ==
    /\ ~probe.called
    /\ \E rows \in HistoryRows(c, max_messages) :
         probe' = [called |-> TRUE, conversation_id |-> c, max_messages |-> max_messages,
                   rows |-> rows, history |-> HistoryOf(rows)]
    /\ UNCHANGED <<conversations, messages, nextConvId, nextMsgId, clock, lastBegin,
                   turn, requests, envOps, deleted, docVars>>

\* ------------------------------------------------------ specification
Init ==
    /\ conversations = <<>>
    /\ messages = <<>>
    /\ nextConvId = 1
    /\ nextMsgId = 1
    /\ clock = 0
    /\ lastBegin = 0
    /\ turn = [t \in Turns |-> IdleTurn]
    /\ requests = 0
    /\ envOps = 0
    /\ deleted = {}
    /\ probe = NoProbe
    /\ InitDocs

Next ==
    \/ \E t \in Turns, cid \in RequestConvIds(nextConvId), message \in RequestMessages :
          ChatReceive(t, cid, message)
    \/ \E t \in Turns : ChatCreateConversation(t)
    \/ \E t \in Turns : ChatGetConversation(t)
    \/ \E t \in Turns : ChatSaveUser(t)
    \/ \E t \in Turns : ChatHistory(t)
    \/ \E t \in Turns, failure \in QueryFailures : ChatQueryFails(t, failure)
    \/ \E t \in Turns, text \in ResponseTexts : ChatQueryReturns(t, text)
    \/ \E t \in Turns : ChatSaveAI(t)
    \/ \E t \in Turns : ChatTitleCheck(t)
    \/ \E t \in Turns : ChatTitleGenerate(t)
    \/ \E t \in Turns : ChatTitleUpdate(t)
    \/ \E t \in Turns : ChatRespond(t)
    \/ \E title \in GivenTitles : CreateNewConversation(title)
    \/ \E c \in ConvIds, title \in PatchTitles : UpdateConversationTitle(c, title)
    \/ \E c \in ConvIds : DeleteConversation(c)

Spec == Init /\ [][Next]_vars

\* The history assembly on its own: any table of up to MaxRows messages,
\* spread over the conversations, with stamps that may coincide.
ProbeRow == [conversation_id : ConvIds, sender : {"user", "ai"}, timestamp : 1..MaxStamp]

ProbeContent(m) == Rep("x", m)

ProbeSizes == {MaxHistory} \cup (1..MaxProbe)

InitHistory ==
    /\ conversations = [c \in ConvIds |-> [title |-> NoneVal]]
    /\ \E k \in 0..MaxRows : \E rows \in [1..k -> ProbeRow] :
         /\ messages = [m \in 1..k |->
                          Message(rows[m].conversation_id, rows[m].sender,
                                  ProbeContent(m), NoneVal, rows[m].timestamp)]
         /\ nextMsgId = k + 1
    /\ nextConvId = MaxConvs + 1
    /\ clock = MaxStamp
    /\ lastBegin = 0
    /\ turn = [t \in Turns |-> IdleTurn]
    /\ requests = 0
    /\ envOps = 0
    /\ deleted = {}
    /\ probe = NoProbe
    /\ InitDocs

NextHistory ==
    \E c \in ConvIds, max_messages \in ProbeSizes : CallHistory(c, max_messages)

SpecHistory == InitHistory /\ [][NextHistory]_vars

\* The documents endpoints on their own.
SpecDocs == Init /\ [][NextDocs]_vars

\* the service whole: chat turns, conversation endpoints, uploads and the
\* endpoints of the client, all within the same bound of requests
NextService == Next \/ NextDocs

SpecService == Init /\ [][NextService]_vars

\* ------------------------------------------------------------ properties

\* C1: when the remote query of a chat turn fails, the turn ends with 503,
\* the failing step persists nothing (no ai message for the turn, no
\* response), and the user message of the turn stays: where no other turn
\* worked on the conversation and it still exists, it holds exactly one
\* message more than before the turn, the user message.
C1_QueryFailureKeepsUserMessage ==
    [][\A t \in Turns :
         (turn[t].pc = "query" /\ turn'[t].pc = "done") =>
            /\ turn'[t].status = HTTP_503
            /\ turn'[t].ai_message = 0
            /\ turn'[t].response = NoneVal
            /\ messages' = messages
            /\ conversations' = conversations
            /\ \A m \in DOMAIN messages' :
                 (messages'[m].conversation_id = turn[t].conversation_id
                    /\ messages'[m].sender = "ai") => m \in turn[t].pre \/ turn[t].overlap
            /\ (conversation_exists(turn[t].conversation_id) /\ ~turn[t].overlap) =>
                 /\ turn[t].user_message \in DOMAIN messages'
                 /\ messages'[turn[t].user_message].sender = "user"
                 /\ {m \in DOMAIN messages' :
                        messages'[m].conversation_id = turn[t].conversation_id}
                      = turn[t].pre \cup {turn[t].user_message}
                 /\ turn[t].user_message \notin turn[t].pre
                 /\ Cardinality({m \in DOMAIN messages' :
                        messages'[m].conversation_id = turn[t].conversation_id})
                      = Cardinality(turn[t].pre) + 1]_vars

\* a turn on a conversation that held messages ended with 503, its user
\* message persisted
C1_Witness ==
    \E t \in Turns :
        /\ turn[t].pc = "done" /\ turn[t].status = HTTP_503
        /\ ~turn[t].overlap
        /\ turn[t].pre # {}
        /\ turn[t].user_message \in DOMAIN messages
        /\ get_conversation_message_count(turn[t].conversation_id)
             = Cardinality(turn[t].pre) + 1

\* C2: for a conversation with k messages and a maximum N >= 1, the history
\* has min(k, N) entries, built from distinct messages of that conversation,
\* no left-out message newer than an included one, ordered oldest to newest,
\* each entry with role "user" for sender user and "assistant" for sender ai
\* and with the content of its message.
C2_HistoryWindow ==
    probe.called =>
        LET c == probe.conversation_id
            N == probe.max_messages
            rows == probe.rows
            h == probe.history
            all == {m \in DOMAIN messages : messages[m].conversation_id = c}
            k == Cardinality(all)
        IN /\ N >= 1
           /\ Len(h) = (IF k < N THEN k ELSE N)
           /\ Len(rows) = Len(h)
           /\ \A i \in 1..Len(rows) : rows[i] \in all
           /\ \A i, j \in 1..Len(rows) : i # j => rows[i] # rows[j]
           /\ \A i, j \in 1..Len(rows) :
                i < j => messages[rows[i]].timestamp <= messages[rows[j]].timestamp
           /\ \A m \in all \ {rows[i] : i \in 1..Len(rows)} :
                \A i \in 1..Len(rows) : messages[m].timestamp <= messages[rows[i]].timestamp
           /\ \A i \in 1..Len(h) :
                /\ messages[rows[i]].sender = "user" => h[i].role = "user"
                /\ messages[rows[i]].sender = "ai" => h[i].role = "assistant"
                /\ h[i].content = messages[rows[i]].content

\* a conversation holding more messages than the maximum, the window
\* spanning two stamps and both senders
C2_Witness ==
    /\ probe.called
    /\ get_conversation_message_count(probe.conversation_id) > probe.max_messages
    /\ Len(probe.history) = 2
    /\ messages[probe.rows[1]].timestamp < messages[probe.rows[2]].timestamp
    /\ probe.history[1].role # probe.history[2].role

\* C3: in a turn with no other turn on the same conversation in flight, the
\* history passed to the remote query does not contain the turn's own user
\* message and contains only messages that existed before the turn.
C3_OwnMessageExcluded ==
    \A t \in Turns :
        ~turn[t].overlap =>
            \A i \in 1..Len(turn[t].sent) :
                /\ turn[t].sent[i].query = turn[t].request.message
                /\ \A j \in 1..Len(turn[t].sent[i].rows) :
                     /\ turn[t].sent[i].rows[j] # turn[t].user_message
                     /\ turn[t].sent[i].rows[j] \in turn[t].pre
                /\ IF turn[t].sent[i].rows = <<>>
                   THEN turn[t].sent[i].conversation_history = NoneVal
                   ELSE /\ turn[t].sent[i].conversation_history # NoneVal
                        /\ Len(turn[t].sent[i].conversation_history[1])
                             = Len(turn[t].sent[i].rows)

\* a turn alone on its conversation forwarded a non-empty history
C3_Witness ==
    \E t \in Turns :
        /\ ~turn[t].overlap
        /\ turn[t].user_message # 0
        /\ Len(turn[t].sent) = 1
        /\ turn[t].sent[1].rows # <<>>

\* C4: neither the history assembled in a turn nor the history it forwards
\* contains a message of another conversation: every row behind them is, or
\* was until the conversation was deleted, a message of the turn's
\* conversation.
C4_HistoryOfOwnConversation ==
    \A t \in Turns :
        \A m \in {turn[t].rows[j] : j \in 1..Len(turn[t].rows)}
                 \cup UNION {{turn[t].sent[i].rows[j] : j \in 1..Len(turn[t].sent[i].rows)} :
                                i \in 1..Len(turn[t].sent)} :
            \/ /\ m \in DOMAIN messages
               /\ messages[m].conversation_id = turn[t].conversation_id
            \/ \E d \in deleted : d.id = turn[t].conversation_id /\ m \in d.messages

\* a history was assembled and forwarded while another conversation held
\* a message
C4_Witness ==
    \E t \in Turns :
        /\ turn[t].rows # <<>>
        /\ Len(turn[t].sent) = 1
        /\ \E m \in DOMAIN messages : messages[m].conversation_id # turn[t].conversation_id

\* C5: a chat request whose message is empty or only whitespace is answered
\* with 422 by the step that receives it, which changes neither table; the
\* request never gets a conversation, a message or a remote query.
C5_BlankMessageRejected ==
    [][\A t \in Turns :
         /\ (turn'[t].pc # "idle" /\ (\A i \in 1..Len(turn'[t].body) : turn'[t].body[i] \in {" ", "\t", "\n"})) =>
                /\ turn'[t].pc = "done"
                /\ turn'[t].status = HTTP_422
                /\ turn'[t].conversation_id = 0
                /\ turn'[t].user_message = 0
                /\ turn'[t].ai_message = 0
                /\ turn'[t].sent = <<>>
         /\ (requests' = requests + 1 /\ turn'[t] # turn[t] /\ (\A i \in 1..Len(turn'[t].body) : turn'[t].body[i] \in {" ", "\t", "\n"})) =>
                /\ conversations' = conversations
                /\ messages' = messages
                /\ nextConvId' = nextConvId
                /\ nextMsgId' = nextMsgId]_vars

\* a whitespace-only request was rejected while the store held a conversation
C5_Witness ==
    \E t \in Turns :
        /\ turn[t].pc = "done" /\ turn[t].status = HTTP_422
        /\ turn[t].body = <<" ">>
        /\ DOMAIN conversations # {}

C7_DeleteCascades ==
    [][/\ \A d \in deleted' :
            /\ d.id \notin DOMAIN conversations'
            /\ \A m \in DOMAIN messages' : messages'[m].conversation_id # d.id
            /\ \A m \in d.messages : m \notin DOMAIN messages'
       /\ \A c \in DOMAIN conversations \ DOMAIN conversations' :
            /\ [id |-> c,
                messages |-> {m \in DOMAIN messages : messages[m].conversation_id = c}]
                 \in deleted'
            /\ \A m \in DOMAIN messages :
                 messages[m].conversation_id # c =>
                    m \in DOMAIN messages' /\ messages'[m] = messages[m]]_vars

\* a conversation with messages was deleted while another conversation
\* keeps its messages
C7_Witness ==
    \E d \in deleted :
        /\ d.messages # {}
        /\ get_conversation(d.id) = NoneVal
        /\ \E m \in DOMAIN messages : get_message(m) # NoneVal

\* C8, as stated: a chat turn writes a title only when the title it
\* checked was null.
C8_WritesOnlyOverNull ==
    [][\A t \in Turns :
         (turn[t].pc = "title_update" /\ conversations' # conversations) =>
            turn[t].seen_title = NoneVal]_vars

\* C8: a step of a chat turn changes a title only as the write of the
\* auto-title step of a turn that found the title null or empty when it
\* checked it; a turn that finds a non-empty title goes on to its response
\* without a write.
C8_WritesOnlyOverMissingTitle ==
    [][/\ \A c \in DOMAIN conversations \cap DOMAIN conversations' :
            (conversations'[c].title # conversations[c].title /\ envOps' = envOps) =>
                \E t \in Turns :
                    /\ turn[t].pc = "title_update" /\ turn'[t].pc = "respond"
                    /\ turn[t].conversation_id = c
                    /\ turn[t].seen_title \in {NoneVal, Some(<<>>)}
                    /\ conversations'[c].title = turn[t].generated_title
       /\ \A t \in Turns :
            (/\ turn[t].pc = "title_check" /\ turn'[t].pc # "title_check"
             /\ turn[t].conversation_id \in DOMAIN conversations
             /\ conversations[turn[t].conversation_id].title \notin {NoneVal, Some(<<>>)}) =>
                /\ turn'[t].pc = "respond"
                /\ turn'[t].seen_title = conversations[turn[t].conversation_id].title
                /\ conversations' = conversations]_vars

\* a turn found a title written by an earlier turn and completed, the
\* title as it was
C8_Witness ==
    \E t \in Turns :
        /\ turn[t].pc = "done" /\ turn[t].status = HTTP_200
        /\ turn[t].seen_title \notin {NoneVal, Some(<<>>)}
        /\ Len(turn[t].seen_title[1]) > 1
        /\ turn[t].conversation_id \in DOMAIN conversations
        /\ conversations[turn[t].conversation_id].title = turn[t].seen_title

\* C9, as stated: a title generated from a content of length 80 is its
\* first 50 characters followed by the ellipsis.
C9_Length80KeepsFirst50 ==
    \A t \in Turns :
        \A m \in DOMAIN messages :
            (/\ turn[t].pc = "title_update"
             /\ FirstUserMessages(turn[t].conversation_id) = {m}
             /\ Len(messages[m].content) = 80) =>
                turn[t].generated_title
                    = Some(SubSeq(messages[m].content, 1, 50) \o <<".", ".", ".">>)

\* C9: the title the auto-title step generates comes from a user message of
\* the conversation that no other user message precedes: its first 50
\* characters, trimmed, followed by the ellipsis exactly when the content
\* is longer than 50; and that generated title is the one written.
C9_TitleFromFirstUserMessage ==
    [][\A t \in Turns :
         /\ (turn[t].pc = "title_generate" /\ turn'[t].pc = "title_update") =>
              \E m \in DOMAIN messages :
                  /\ messages[m].conversation_id = turn[t].conversation_id
                  /\ messages[m].sender = "user"
                  /\ \A n \in DOMAIN messages :
                       (messages[n].conversation_id = turn[t].conversation_id
                          /\ messages[n].sender = "user") =>
                            messages[m].timestamp <= messages[n].timestamp
                  /\ LET content == messages[m].content
                         head == SubSeq(content, 1, IF Len(content) < 50 THEN Len(content) ELSE 50)
                         black == {i \in 1..Len(head) : head[i] \notin {" ", "\t", "\n"}}
                         trimmed == IF black = {} THEN <<>>
                                    ELSE SubSeq(head, SetMin(black), SetMax(black))
                     IN turn'[t].generated_title
                          = Some(IF Len(content) > 50 THEN trimmed \o <<".", ".", ".">>
                                 ELSE trimmed)
         /\ (/\ turn[t].pc = "title_update" /\ turn'[t].pc = "respond"
             /\ turn[t].conversation_id \in DOMAIN conversations) =>
                conversations'[turn[t].conversation_id].title = turn[t].generated_title]_vars

\* a turn wrote the title of an 80-character message whose 50th character
\* is a blank, and the title of a 50-character message
C9_Witness ==
    /\ \E t \in Turns :
        /\ turn[t].pc = "done" /\ turn[t].status = HTTP_200
        /\ turn[t].generated_title = Some(Rep("a", 49) \o Ellipsis)
        /\ turn[t].conversation_id \in DOMAIN conversations
        /\ conversations[turn[t].conversation_id].title = turn[t].generated_title
    /\ \E c \in DOMAIN conversations : conversations[c].title = Some(Rep("d", 50))

\* C10, as stated: once the ai message is persisted, no auto-title step
\* ends the turn other than in success.
C10_TitleFailureSwallowed ==
    [][\A t \in Turns :
         (/\ turn[t].pc \in {"title_check", "title_generate", "title_update"}
          /\ turn[t].ai_message # 0
          /\ turn'[t].pc = "done") =>
            /\ turn'[t].status = HTTP_200
            /\ turn'[t].response # NoneVal]_vars

\* C11: a chat request without conversation_id creates one conversation in
\* its first step and none later; when the query returned a text and no
\* other request worked on or deleted that conversation, the turn ends with
\* 200, the conversation holds exactly two messages, the user message and
\* then the ai message of the turn, and the response carries the
\* conversation id, the text and the two message ids.
C11_NewChatTwoMessages ==
    [][\A t \in Turns :
         /\ (turn[t].pc = "resolve" /\ turn'[t].pc # "resolve"
               /\ turn[t].request.conversation_id = 0) =>
                /\ turn'[t].conversation_id \notin DOMAIN conversations
                /\ DOMAIN conversations' = DOMAIN conversations \cup {turn'[t].conversation_id}
         /\ (turn[t].pc \notin {"idle", "done", "resolve"} /\ turn'[t].pc # turn[t].pc) =>
                DOMAIN conversations' = DOMAIN conversations
         /\ (/\ turn[t].pc # "done" /\ turn'[t].pc = "done"
             /\ turn[t].request.conversation_id = 0
             /\ turn[t].ai_response_text # <<>>
             /\ ~turn[t].overlap
             /\ \A d \in deleted : d.id # turn[t].conversation_id) =>
                LET c == turn[t].conversation_id
                    um == turn[t].user_message
                    am == turn[t].ai_message
                    r == turn'[t].response
                IN /\ turn'[t].status = HTTP_200
                   /\ c \in DOMAIN conversations'
                   /\ um # am
                   /\ {m \in DOMAIN messages' : messages'[m].conversation_id = c} = {um, am}
                   /\ messages'[um].sender = "user"
                   /\ messages'[am].sender = "ai"
                   /\ messages'[um].timestamp < messages'[am].timestamp
                   /\ messages'[um].content = turn[t].request.message
                   /\ messages'[am].content = turn[t].ai_response_text
                   /\ r # NoneVal
                   /\ r[1].conversation_id = c
                   /\ r[1].ai_message = turn[t].ai_response_text
                   /\ r[1].user_message_id = um
                   /\ r[1].ai_message_id = am]_vars

\* a chat without conversation_id ended with 200 while another
\* conversation exists; its conversation holds two messages
C11_Witness ==
    \E t \in Turns :
        /\ turn[t].pc = "done" /\ turn[t].status = HTTP_200
        /\ turn[t].request.conversation_id = 0
        /\ ~turn[t].overlap
        /\ get_conversation_message_count(turn[t].conversation_id) = 2
        /\ Cardinality(DOMAIN conversations) = 2

C13_MessageHasConversation ==
    \A m \in DOMAIN messages :
        /\ messages[m].conversation_id # 0
        /\ Cardinality({c \in DOMAIN conversations : c = messages[m].conversation_id}) = 1

\* the store refused a message for a deleted conversation while it holds
\* messages of another one
C13_Witness ==
    /\ \E t \in Turns : turn[t].pc = "done" /\ turn[t].error = "IntegrityError"
    /\ deleted # {}
    /\ DOMAIN messages # {}

\* C17, as stated: message identifiers are issued in insertion order; of two
\* messages of one conversation, every listing and every history window
\* holding both returns the one inserted first before the other.
C17_InsertionOrderKept ==
    \A c \in DOMAIN conversations :
        \A s \in get_messages_by_conversation(c) \cup HistoryRows(c, MaxHistory) :
            \A i, j \in 1..Len(s) : i < j => s[i] < s[j]

C19_SourcesEmpty ==
    /\ \A m \in DOMAIN messages : messages[m].sources \in {<<>>, <<<<>>>>}
    /\ \A t \in Turns :
         turn[t].response # NoneVal => turn[t].response[1].sources \in {<<>>, <<<<>>>>}

\* a turn answered with 200 and both of its messages are in the store
C19_Witness ==
    \E t \in Turns :
        /\ turn[t].pc = "done" /\ turn[t].status = HTTP_200
        /\ turn[t].response # NoneVal
        /\ {turn[t].user_message, turn[t].ai_message} \subseteq DOMAIN messages
        /\ messages[turn[t].user_message].sender = "user"
        /\ messages[turn[t].ai_message].sender = "ai"

\* C14, as stated: an upload whose file has no extension of the allow-list,
\* a file without filename included, ends validation with 400, with no
\* file name derived, no file written and no call of the RAG service.
C14_DisallowedExtensionRejected ==
    \A u \in Uploads :
        LET name == upload[u].file.filename
            ext == IF name = NoneVal THEN <<>> ELSE lower(suffix(name[1]))
        IN (upload[u].pc \notin {"idle", "validate"} /\ ext \notin ALLOWED_EXTENSIONS) =>
              /\ upload[u].pc = "done"
              /\ upload[u].status = HTTP_400
              /\ upload[u].unique_filename = NoneVal
              /\ upload[u].calls = <<>>

\* C15: an upload whose save succeeded and whose forward to the RAG service
\* fails ends with 503, and from then on no file of the name derived for it
\* is in local storage.
C15_FailedForwardRemovesFile ==
    [][\A u \in Uploads :
         /\ (/\ upload[u].pc = "forward" /\ upload'[u].pc = "done"
             /\ upload'[u].response = NoneVal) =>
                /\ upload[u].unique_filename[1] \in files
                /\ upload'[u].status = HTTP_503
                /\ upload'[u].unique_filename[1] \notin files'
         /\ (upload'[u].pc = "done" /\ upload'[u].status = HTTP_503) =>
                upload'[u].unique_filename[1] \notin files']_vars

\* an upload ended with 503 after its file was saved and sent, the file of
\* another upload still stored
C15_Witness ==
    \E u \in Uploads :
        /\ upload[u].pc = "done" /\ upload[u].status = HTTP_503
        /\ Len(upload[u].calls) = 1
        /\ upload[u].calls[1].saved
        /\ upload[u].unique_filename[1] \notin files
        /\ files # {}

C20_OneCallNoRetry ==
    /\ \A op \in {"query", "upload_document", "scan_documents",
                  "get_pipeline_status", "health_check"},
          outcome \in CallOutcomes \cup QueryFailures :
         /\ ClientOperation(op, outcome).requests = 1
         /\ ClientOperation(op, outcome).raised = (outcome # "ok")
    /\ \A i \in 1..Len(client) :
         /\ client[i].call.requests = 1
         /\ client[i].call.op # "health_check" =>
               (client[i].call.raised <=> client[i].status = HTTP_503)
    /\ \A t \in Turns :
         /\ Len(turn[t].sent) <= 1
         /\ (turn[t].pc = "done" /\ turn[t].status = HTTP_503) => Len(turn[t].sent) = 1
    /\ \A u \in Uploads :
         /\ Len(upload[u].calls) <= 1
         /\ (upload[u].pc = "done" /\ upload[u].status = HTTP_503) =>
               Len(upload[u].calls) = 1

\* a chat turn ended with 503 after its one query, and an endpoint of the
\* client answered 503 for an invocation that raised
C20_Witness ==
    /\ \E t \in Turns :
         /\ turn[t].pc = "done" /\ turn[t].status = HTTP_503
         /\ Len(turn[t].sent) = 1
    /\ \E i \in 1..Len(client) :
         /\ client[i].call.raised
         /\ client[i].call.requests = 1
         /\ client[i].status = HTTP_503

\* C21, as stated: whatever other turns are in flight on the same
\* conversation, the history a turn forwards to the remote query does not
\* contain the turn's own user message.
C21_OwnMessageExcludedConcurrently ==
    \A t \in Turns :
        \A i \in 1..Len(turn[t].sent) :
            \A j \in 1..Len(turn[t].sent[i].rows) :
                turn[t].sent[i].rows[j] # turn[t].user_message

\* C22: the steps of a turn occur in one order.  The query is issued by a
\* turn that has committed its user message; an ai message is inserted
\* only by a turn whose query was issued and raised nothing, after its user
\* message and before it generated or wrote a title; a title is written
\* only by a turn that has committed its ai message; and a turn whose
\* query raised ends there with no ai message.
C22_StepOrder ==
    [][/\ \A t \in Turns :
         LET Rank == [p \in {"idle", "resolve", "save_user", "history", "query", "save_ai",
                             "title_check", "title_generate", "title_update", "respond",
                             "done"} |->
                        CASE p = "idle" -> 0 [] p = "resolve" -> 1 [] p = "save_user" -> 2
                          [] p = "history" -> 3 [] p = "query" -> 4 [] p = "save_ai" -> 5
                          [] p = "title_check" -> 6 [] p = "title_generate" -> 7
                          [] p = "title_update" -> 8 [] p = "respond" -> 9 [] p = "done" -> 10]
         IN /\ (turn'[t].pc # turn[t].pc /\ turn[t].pc \notin {"idle", "done"}) =>
                  Rank[turn'[t].pc] > Rank[turn[t].pc]
            /\ Len(turn'[t].sent) > Len(turn[t].sent) =>
                  /\ turn[t].pc = "query"
                  /\ turn[t].user_message # 0
                  /\ turn[t].user_message < nextMsgId
                  /\ turn[t].ai_message = 0
            /\ (turn'[t].ai_message # 0 /\ turn[t].ai_message = 0) =>
                  /\ turn[t].pc = "save_ai"
                  /\ Len(turn[t].sent) = 1
                  /\ turn[t].error = ""
                  /\ turn[t].user_message # 0
                  /\ turn[t].user_message < turn'[t].ai_message
                  /\ turn[t].generated_title = NoneVal
                  /\ turn'[t].ai_message \in DOMAIN messages' \ DOMAIN messages
                  /\ messages'[turn'[t].ai_message].sender = "ai"
            /\ (turn'[t].pc # turn[t].pc /\ turn[t].pc = "title_update") =>
                  turn[t].ai_message # 0
            /\ (turn'[t].pc = "done" /\ turn'[t].status = HTTP_503) =>
                  /\ turn'[t].ai_message = 0
                  /\ turn'[t].generated_title = NoneVal
       /\ \A m \in DOMAIN messages' \ DOMAIN messages :
            messages'[m].sender = "ai" =>
               \E u \in Turns : turn[u].pc = "save_ai" /\ turn'[u].ai_message = m
       /\ \A c \in DOMAIN conversations \cap DOMAIN conversations' :
            (conversations'[c] # conversations[c] /\ envOps' = envOps) =>
               \E u \in Turns : /\ turn[u].pc = "title_update"
                                /\ turn'[u].pc = "respond"
                                /\ turn[u].conversation_id = c
                                /\ turn[u].ai_message # 0]_vars

\* a turn wrote the title after its user message, its one query and its ai
\* message, and another turn ended at a query that raised
C22_Witness ==
    /\ \E t \in Turns :
         /\ turn[t].pc = "done" /\ turn[t].status = HTTP_200
         /\ turn[t].generated_title # NoneVal
         /\ turn[t].user_message < turn[t].ai_message
         /\ Len(turn[t].sent) = 1
    /\ \E t \in Turns :
         /\ turn[t].pc = "done" /\ turn[t].status = HTTP_503
         /\ turn[t].user_message # 0
         /\ turn[t].ai_message = 0

\* C23, as stated: when the query of a turn returned and the conversation
\* still exists, the turn persists exactly one ai message in its
\* conversation whose content is the response text, the empty text
\* included; and no persisted message has empty content.
C23_AiMessageForEveryResponse ==
    [][/\ \A t \in Turns :
            (/\ turn[t].pc = "save_ai"
             /\ turn'[t].pc # "save_ai"
             /\ conversation_exists(turn[t].conversation_id)) =>
                /\ Cardinality(DOMAIN messages' \ DOMAIN messages) = 1
                /\ \A m \in DOMAIN messages' \ DOMAIN messages :
                     /\ messages'[m].sender = "ai"
                     /\ messages'[m].conversation_id = turn[t].conversation_id
                     /\ messages'[m].content = turn[t].ai_response_text
       /\ \A m \in DOMAIN messages' : messages'[m].content # <<>>]_vars

\* C24: a turn u ended with 503 at its query after committing its user
\* message a; a turn t on the same conversation that resolved the
\* conversation after a was committed then reads its history, the
\* conversation not deleted: a is still stored and is in the history t
\* will forward, as an entry of role "user" with the content of a, no
\* entry before it newer and no entry after it older than a; and the query
\* of t forwards that history.
C24_FailedTurnMessageForwarded ==
    [][\A t \in Turns :
         /\ (turn[t].pc = "history" /\ turn'[t].pc = "query") =>
               \A u \in Turns \ {t} :
                  LET a == turn[u].user_message
                      fwd == ForwardedHistory(turn'[t].rows)
                      h == ForwardedHistory(turn'[t].conversation_history)
                  IN (/\ turn[u].pc = "done" /\ turn[u].status = HTTP_503
                      /\ turn[u].conversation_id = turn[t].conversation_id
                      /\ a \in turn[t].pre
                      /\ conversation_exists(turn[t].conversation_id)) =>
                        \E i \in 1..Len(fwd) :
                           /\ a \in DOMAIN messages
                           /\ fwd[i] = a
                           /\ h[i] = [role |-> "user", content |-> messages[a].content]
                           /\ \A j \in 1..Len(fwd) :
                                /\ j < i => messages[fwd[j]].timestamp <= messages[a].timestamp
                                /\ j > i => messages[fwd[j]].timestamp >= messages[a].timestamp
         /\ Len(turn'[t].sent) > Len(turn[t].sent) =>
               /\ turn'[t].sent[Len(turn'[t].sent)].rows = ForwardedHistory(turn[t].rows)
               /\ turn'[t].sent[Len(turn'[t].sent)].conversation_history
                    = IF ForwardedHistory(turn[t].conversation_history) # <<>>
                      THEN Some(ForwardedHistory(turn[t].conversation_history))
                      ELSE NoneVal]_vars

\* a turn ended with 503, and a later turn on the same conversation
\* forwarded the user message of the failed turn
C24_Witness ==
    \E t \in Turns, u \in Turns :
        /\ t # u
        /\ turn[u].pc = "done" /\ turn[u].status = HTTP_503
        /\ turn[u].conversation_id = turn[t].conversation_id
        /\ turn[u].user_message \in turn[t].pre
        /\ Len(turn[t].sent) = 1
        /\ \E i \in 1..Len(turn[t].sent[1].rows) :
             turn[t].sent[1].rows[i] = turn[u].user_message
        /\ turn[t].sent[1].conversation_history # NoneVal

\* C25, as stated: once the turns that ran on one conversation with no
\* title have all ended in success, a title that one of them generated and
\* that is stored is the title derived from a user message of the
\* conversation that no other precedes in time.
C25_RacedTitleFromEarliest ==
    \A c \in DOMAIN conversations :
        (/\ \A t \in Turns : /\ turn[t].pc = "done"
                             /\ turn[t].status = HTTP_200
                             /\ turn[t].conversation_id = c
         /\ \E t \in Turns : /\ turn[t].generated_title # NoneVal
                             /\ turn[t].generated_title = conversations[c].title) =>
            \E m \in FirstUserMessages(c) :
                conversations[c].title = Some(TitleText(messages[m].content))

\* C26: a step of a chat turn leaves every stored message as it is and in
\* the store, adds only messages of the conversation of the turn that
\* steps, removes no conversation, and changes an existing conversation
\* only by writing the title of the conversation of the turn that steps,
\* in its title step.
C26_TurnOnlyAppends ==
    [][envOps' = envOps =>
         /\ \A m \in DOMAIN messages :
              m \in DOMAIN messages' /\ messages'[m] = messages[m]
         /\ \A m \in DOMAIN messages' \ DOMAIN messages :
              \E t \in Turns :
                 /\ turn[t].pc \in {"save_user", "save_ai"}
                 /\ turn'[t].pc # turn[t].pc
                 /\ messages'[m].conversation_id = turn[t].conversation_id
         /\ \A c \in DOMAIN conversations :
              /\ c \in DOMAIN conversations'
              /\ conversations'[c] # conversations[c] =>
                    \E t \in Turns :
                       /\ turn[t].pc = "title_update"
                       /\ turn'[t].pc # turn[t].pc
                       /\ turn[t].conversation_id = c
                       /\ conversations'[c] = [conversations[c] EXCEPT
                                                 !.title = turn[t].generated_title]
         /\ \A c \in DOMAIN conversations' \ DOMAIN conversations :
              \E t \in Turns :
                 /\ turn[t].pc = "resolve"
                 /\ turn[t].request.conversation_id = 0
                 /\ turn'[t].conversation_id = c]_vars

\* a turn wrote the title of its conversation while another conversation
\* without title held a message
C26_Witness ==
    \E t \in Turns :
        /\ turn[t].pc = "done" /\ turn[t].status = HTTP_200
        /\ turn[t].generated_title # NoneVal
        /\ turn[t].conversation_id \in DOMAIN conversations
        /\ conversations[turn[t].conversation_id].title = turn[t].generated_title
        /\ \E c \in DOMAIN conversations \ {turn[t].conversation_id} :
             /\ TitleMissing(conversations[c].title)
             /\ ConvMsgIds(c) # {}

\* C27: step 2 commits the user message alone and step 6 commits the ai
\* message alone, in two steps of the turn; between them the user message
\* is in the store, readable by every other session, with no ai message of
\* the turn; and a turn that holds a committed user message and ends in a
\* failure changes no stored message.
C27_SeparateCommits ==
    [][\A t \in Turns :
         /\ (turn[t].pc = "save_user" /\ turn'[t].pc = "history") =>
               /\ DOMAIN messages' \ DOMAIN messages = {turn'[t].user_message}
               /\ messages'[turn'[t].user_message].sender = "user"
               /\ turn'[t].ai_message = 0
         /\ (/\ turn'[t].pc \in {"history", "query", "save_ai"}
             /\ turn'[t].conversation_id \in DOMAIN conversations') =>
               /\ turn'[t].user_message \in DOMAIN messages'
               /\ turn'[t].ai_message = 0
         /\ (turn[t].pc = "save_ai" /\ turn'[t].pc = "title_check") =>
               /\ DOMAIN messages' \ DOMAIN messages = {turn'[t].ai_message}
               /\ messages'[turn'[t].ai_message].sender = "ai"
               /\ turn[t].user_message \in DOMAIN messages
         /\ (/\ turn[t].user_message # 0
             /\ InFlight(t)
             /\ turn'[t].pc = "done"
             /\ turn'[t].status # HTTP_200) =>
               messages' = messages]_vars

\* a turn waits for its answer while another turn has read its user
\* message, and a turn failed after step 2 with its user message stored
C27_Witness ==
    /\ \E t \in Turns : \E u \in Turns \ {t} :
         /\ turn[t].pc \in {"history", "query", "save_ai"}
         /\ turn[t].ai_message = 0
         /\ \E i \in 1..Len(turn[u].rows) : turn[u].rows[i] = turn[t].user_message
    /\ \E t \in Turns :
         /\ turn[t].pc = "done"
         /\ turn[t].status \in {HTTP_500, HTTP_503}
         /\ turn[t].user_message \in DOMAIN messages

\* C28, as stated: when a turn reads its history, the conversation and its
\* user message stored, the history it will forward consists of the
\* messages of the conversation other than its user message that are not
\* newer than it: the newest of them up to MaxHistory - 1, oldest first,
\* none when there is no such message.
C28_ForwardsPrecedingMessages ==
    [][\A t \in Turns :
         (/\ turn[t].pc = "history" /\ turn'[t].pc = "query"
          /\ turn[t].user_message \in DOMAIN messages) =>
            LET um == turn[t].user_message
                fwd == ForwardedHistory(turn'[t].rows)
                sent == {fwd[i] : i \in 1..Len(fwd)}
                P == {m \in ConvMsgIds(turn[t].conversation_id) \ {um} :
                         messages[m].timestamp <= messages[um].timestamp}
            IN /\ Len(fwd) = (IF Cardinality(P) < MaxHistory - 1
                              THEN Cardinality(P) ELSE MaxHistory - 1)
               /\ Cardinality(sent) = Len(fwd)
               /\ sent \subseteq P
               /\ \A m \in P \ sent : \A n \in sent :
                     messages[m].timestamp <= messages[n].timestamp
               /\ \A i, j \in 1..Len(fwd) :
                     i < j => messages[fwd[i]].timestamp <= messages[fwd[j]].timestamp]_vars

\* C29, as stated: at the end of an upload a file of the name derived for
\* it is in local storage exactly when the upload ended in success.
C29_FileExactlyOnSuccess ==
    \A u \in Uploads :
        upload[u].pc = "done" =>
            ((/\ upload[u].unique_filename # NoneVal
              /\ upload[u].unique_filename[1] \in files)
                <=> upload[u].status = HTTP_200)

\* C30, as stated: a turn whose conversation was deleted after the turn
\* resolved it and before the turn returns does not end in success, and no
\* message of a deleted conversation is in the store.
C30_DeletedTurnFails ==
    [][/\ \A t \in Turns :
            (/\ turn[t].pc \notin {"idle", "resolve", "done"}
             /\ turn'[t].pc = "done"
             /\ \E d \in deleted : d.id = turn[t].conversation_id) =>
                turn'[t].status # HTTP_200
       /\ \A d \in deleted' : \A m \in DOMAIN messages' :
            messages'[m].conversation_id # d.id]_vars

====
